---- MODULE Spec2Model ----
(***************************************************************************)
(* Model of simple_bot.py: a Telegram bot that counts card symbols per     *)
(* channel.  The state is the module's global collections                  *)
(* (processed_messages, pending_edits, auto_report_settings), the counter  *)
(* store of the compteur module, the asyncio tasks the handlers create,    *)
(* and the file processed_messages.json.  One action is one run of a       *)
(* handler or of a task between two suspension points (await) of the       *)
(* single-threaded event loop.                                             *)
(***************************************************************************)
EXTENDS Integers, Sequences, FiniteSets, TLC

(***************************************************************************)
(* Bounds of the model.                                                    *)
(***************************************************************************)
\* number of updates (posts, edits, commands) the transport delivers
MaxUpdates == 3

Channels == {1, 11}
MsgIds == {7}
\* every update creates at most one task
DelayTaskIds == 1..MaxUpdates
ReportTaskIds == 1..MaxUpdates

(***************************************************************************)
(* Texts are sequences of tokens.  "check" and "beginner" stand for the    *)
(* two confirmation symbols, "heart" and "heart_suit" for the two heart    *)
(* glyphs, "diamond", "club", "spade" for the other suits; "x" is any      *)
(* other character.                                                        *)
(***************************************************************************)
TxtWin == <<"check", "#", "n", "4", "2", "(", "heart_suit", "diamond", ")">>
TxtFree == <<"beginner", "(", "heart", "club", ")">>
TxtNoCard == <<"check", "#", "n", "0", "4", "2", "(", "x", ")", "(", "spade", ")">>
TxtNoParen == <<"check", "#", "n", "4", "2", "spade">>
TxtNoConf == <<"#", "n", "4", "2", "(", "spade", ")">>
TxtEmpty == << >>
Texts == {TxtWin, TxtFree, TxtNoCard, TxtNoParen, TxtNoConf, TxtEmpty}

\* context.args of /time: no argument, or the first argument as characters.
\* "sup2" is a character such as superscript two: isdigit() accepts it and
\* int() raises ValueError on it.
NoArgs == << >>
TimeArgs == {NoArgs, <<"4">>, <<"5">>, <<"0", "5">>, <<"3", "2">>, <<"3", "3">>,
             <<"a">>, <<"-", "5">>, <<"sup2">>}

Symbols == {"heart", "diamond", "club", "spade"}
confirmation_symbols == {"check", "beginner"}

DecimalDigits == {"0", "1", "2", "3", "4", "5", "6", "7", "8", "9"}
DigitChars == <<"0", "1", "2", "3", "4", "5", "6", "7", "8", "9">>

(***************************************************************************)
(* Conversions between integers and their decimal text.                    *)
(***************************************************************************)
DigitVal(ch) == (CHOOSE i \in 1..10 : DigitChars[i] = ch) - 1

RECURSIVE ParseInt(_)
ParseInt(ds) ==
    IF ds = << >> THEN 0
    ELSE 10 * ParseInt(SubSeq(ds, 1, Len(ds) - 1)) + DigitVal(ds[Len(ds)])

RECURSIVE NatToStr(_)
NatToStr(n) ==
    IF n < 10 THEN <<DigitChars[n + 1]>>
    ELSE NatToStr(n \div 10) \o <<DigitChars[(n % 10) + 1]>>

IntToStr(n) == IF n < 0 THEN <<"-">> \o NatToStr(0 - n) ELSE NatToStr(n)

StartsWith(s, prefix) ==
    /\ Len(s) >= Len(prefix)
    /\ SubSeq(s, 1, Len(prefix)) = prefix

Min(S) == CHOOSE x \in S : \A y \in S : x <= y

\* dict helpers: a dict is a function whose domain is its key set
DictPut(d, k, v) == [x \in DOMAIN d \cup {k} |-> IF x = k THEN v ELSE d[x]]
DictDel(d, k) == [x \in DOMAIN d \ {k} |-> d[x]]

(***************************************************************************)
(* The counter store (module compteur): one record of counts per channel.  *)
(***************************************************************************)
ZeroCounts == [s \in Symbols |-> 0]

get_compteurs(cpt, chat_id) == cpt[chat_id]

update_compteurs(cpt, chat_id, symbol, count) ==
    [cpt EXCEPT ![chat_id][symbol] = @ + count]

reset_compteurs_canal(cpt, chat_id) == [cpt EXCEPT ![chat_id] = ZeroCounts]

(***************************************************************************)
(* The dedup ledger: a set of keys "<chat_id>_<numero>".                   *)
(***************************************************************************)
MessageKey(chat_id, numero) == IntToStr(chat_id) \o <<"_">> \o IntToStr(numero)

is_message_processed_never(pm, message_key) == FALSE

is_message_processed(pm, message_key) == message_key \in pm

mark_message_processed(pm, message_key) == pm \cup {message_key}

ChannelPrefix_bare(chat_id) == IntToStr(chat_id)

ChannelPrefix(chat_id) == IntToStr(chat_id) \o <<"_">>

PurgeChannel_nothing(pm, chat_id) == pm

Prefixes == [chat_id \in Channels |-> ChannelPrefix(chat_id)]

\* lines 238 and 357: keep the keys that do not start with "<chat_id>_"
PurgeChannel(pm, chat_id) ==
    {key \in pm : ~StartsWith(key, Prefixes[chat_id])}

(***************************************************************************)
(* Text analysis of process_message_content.                               *)
(***************************************************************************)
HasConfirmation_always(text) == TRUE

HasConfirmation(text) ==
    \E i \in DOMAIN text : text[i] \in confirmation_symbols

\* re.search(r"#n(\d+)", text): the digits of the leftmost match, << >> if none
NumeroStarts(text) ==
    {i \in 1..(Len(text) - 2) :
        /\ text[i] = "#"
        /\ text[i + 1] = "n"
        /\ text[i + 2] \in DecimalDigits}

NumeroDigits(text) ==
    IF NumeroStarts(text) = {} THEN << >>
    ELSE LET i == Min(NumeroStarts(text))
             ends == {j \in (i + 2)..Len(text) :
                         \A k \in (i + 2)..j : text[k] \in DecimalDigits}
             stop == CHOOSE j \in ends : \A k \in ends : k <= j
         IN  SubSeq(text, i + 2, stop)

\* re.search(r'\(([^()]*)\)', text): the leftmost "(" closed by a ")" with no
\* parenthesis in between
ParenStarts(text) ==
    {i \in DOMAIN text :
        /\ text[i] = "("
        /\ \E j \in (i + 1)..Len(text) :
              /\ text[j] = ")"
              /\ \A k \in (i + 1)..(j - 1) : text[k] \notin {"(", ")"}}

HasParen(text) == ParenStarts(text) # {}

ParenContent(text) ==
    LET i == Min(ParenStarts(text))
        j == Min({k \in (i + 1)..Len(text) : text[k] = ")"})
    IN  SubSeq(text, i + 1, j - 1)

\* str.count of one symbol
CountOf(content, glyph) ==
    Cardinality({i \in DOMAIN content : content[i] = glyph})

HeartCount(content) == CountOf(content, "heart") + CountOf(content, "heart_suit")

SymbolCount(content, symbol) ==
    IF symbol = "heart" THEN HeartCount(content) ELSE CountOf(content, symbol)

\* the increments of lines 181-193, applied in the order of the code
ApplySymbol(cpt, chat_id, content, symbol) ==
    IF SymbolCount(content, symbol) > 0
    THEN update_compteurs(cpt, chat_id, symbol, SymbolCount(content, symbol))
    ELSE cpt

ApplyCards_first(cpt, chat_id, content) ==
    ApplySymbol(cpt, chat_id, content, "heart")

ApplyCards(cpt, chat_id, content) ==
    LET c1 == ApplySymbol(cpt, chat_id, content, "heart")
        c2 == ApplySymbol(c1, chat_id, content, "diamond")
        c3 == ApplySymbol(c2, chat_id, content, "club")
    IN  ApplySymbol(c3, chat_id, content, "spade")

CardsFound(content) == {s \in Symbols : SymbolCount(content, s) > 0}

HasNumero(text) == NumeroDigits(text) # << >>

\* What process_message_content extracts from a text, worked out once for
\* every text of the model.
Extracted ==
    [text \in Texts |->
        [has_confirmation |-> HasConfirmation(text),
         has_numero |-> HasNumero(text),
         numero |-> ParseInt(NumeroDigits(text)),
         has_paren |-> HasParen(text),
         content |-> IF HasParen(text) THEN ParenContent(text) ELSE << >>]]

Numeros == {Extracted[text].numero : text \in Texts}

Keys == [chat_id \in Channels |-> [numero \in Numeros |-> MessageKey(chat_id, numero)]]

\* The dedup gate of lines 153-165: is the text let through, and the ledger
\* after the gate.
TextKey(chat_id, text) == Keys[chat_id][Extracted[text].numero]

DedupRejects(pm, chat_id, text) ==
    /\ Extracted[text].has_numero
    /\ is_message_processed(pm, TextKey(chat_id, text))

LedgerAfterGate(pm, chat_id, text) ==
    IF Extracted[text].has_numero
    THEN mark_message_processed(pm, TextKey(chat_id, text))
    ELSE pm

(***************************************************************************)
(* process_message_content up to its only suspension point, reply_text:    *)
(* the ledger and the counters it leaves, the gate where it returned, and  *)
(* whether it called reply_text.                                           *)
(***************************************************************************)
Outcome(pm, cpt, gate) ==
    [processed_messages |-> pm, compteurs |-> cpt, gate |-> gate,
     replied |-> gate = "counted"]

process_message_content(chat_id, text, pm, cpt) ==
    IF ~Extracted[text].has_confirmation THEN Outcome(pm, cpt, "no_confirmation")
    ELSE IF DedupRejects(pm, chat_id, text) THEN Outcome(pm, cpt, "duplicate")
    ELSE LET pm1 == LedgerAfterGate(pm, chat_id, text) IN
         IF ~Extracted[text].has_paren THEN Outcome(pm1, cpt, "no_parentheses")
         ELSE IF CardsFound(Extracted[text].content) = {}
              THEN Outcome(pm1, cpt, "no_cards")
              ELSE Outcome(pm1, ApplyCards(cpt, chat_id, Extracted[text].content),
                           "counted")

(***************************************************************************)
(* State.                                                                  *)
(***************************************************************************)
VARIABLES
    compteurs,               \* counter store: chat_id -> symbol -> count
    processed_messages,      \* the dedup ledger (global set of keys)
    processed_messages_json, \* content of the file processed_messages.json
    pending_edits,           \* dict message_id -> [chat_id, task, text]
    auto_report_settings,    \* dict chat_id -> [interval, task]
    delay_tasks,             \* the process_message_after_delay tasks
    report_tasks,            \* the auto_report_cycle tasks
    updates,                 \* number of updates delivered so far
    step                     \* the handler or task step just run, and what
                             \* it handed to the reply sink

vars == <<compteurs, processed_messages, processed_messages_json, pending_edits,
          auto_report_settings, delay_tasks, report_tasks, updates, step>>

NoTask == [pc |-> "none"]
DoneTask == [pc |-> "done"]

NoBody == << >>

Step(op, chat_id, gate, sent, body, status) ==
    [op |-> op, chat_id |-> chat_id, gate |-> gate,
     sent |-> sent, body |-> body, status |-> status]

Silent(op, chat_id, gate) == Step(op, chat_id, gate, "none", NoBody, "none")

Delivery(ok) == IF ok THEN "ok" ELSE "failed"

(***************************************************************************)
(* asyncio tasks.  A task is "sleep" (suspended in asyncio.sleep), "reply" *)
(* or "send" (suspended in the reply sink), or finished.  cancel() marks a *)
(* suspended task: when the loop next runs the task, CancelledError is     *)
(* raised at its suspension point instead of resuming it.  Until then the  *)
(* handlers and the other tasks run on.                                    *)
(* A finished task is kept as long as a dict still holds its handle.       *)
(***************************************************************************)
IsLive(task) == task.pc \notin {"none", "done"}

CancelTask_ignored(pool, id) == pool

CancelTask(pool, id) ==
    IF IsLive(pool[id]) THEN [pool EXCEPT ![id].must_cancel = TRUE] ELSE pool

DelayHandles(pe) == {pe[m].task : m \in DOMAIN pe}

ReportHandles(ars) == {ars[c].task : c \in DOMAIN ars}

\* drop the finished tasks no dict refers to
Sweep(pool, handles) ==
    [i \in DOMAIN pool |->
        IF pool[i].pc = "done" /\ i \notin handles THEN NoTask ELSE pool[i]]

FreeIds(pool) == {i \in DOMAIN pool : pool[i].pc = "none"}

MayResume_always(task) == TRUE

\* a suspended task resumes normally only if it has not been cancelled
MayResume(task) == ~task.must_cancel

\* the transport delivers one more update
Deliver == updates' = updates + 1

Init ==
    /\ compteurs = [c \in Channels |-> ZeroCounts]
    /\ processed_messages = {}
    /\ processed_messages_json = {}
    /\ pending_edits = << >>
    /\ auto_report_settings = << >>
    /\ delay_tasks = [i \in DelayTaskIds |-> NoTask]
    /\ report_tasks = [i \in ReportTaskIds |-> NoTask]
    /\ updates = 0
    /\ step = Silent("start", 0, "none")

(***************************************************************************)
(* handle_message, a new message or channel post: processed at once.       *)
(***************************************************************************)
ChannelPost(chat_id, text, ok) ==
    Deliver /\
    IF text = TxtEmpty
    THEN /\ step' = Silent("channel_post", chat_id, "no_text")
         /\ UNCHANGED <<compteurs, processed_messages, processed_messages_json,
                        pending_edits, auto_report_settings, delay_tasks,
                        report_tasks>>
    ELSE LET r == process_message_content(chat_id, text, processed_messages,
                                          compteurs)
         IN  /\ compteurs' = r.compteurs
             /\ processed_messages' = r.processed_messages
             /\ step' = IF r.replied
                        THEN Step("channel_post", chat_id, r.gate, "counts",
                                  get_compteurs(r.compteurs, chat_id), Delivery(ok))
                        ELSE Silent("channel_post", chat_id, r.gate)
             /\ UNCHANGED <<processed_messages_json, pending_edits,
                            auto_report_settings, delay_tasks, report_tasks>>

(***************************************************************************)
(* handle_message, an edited channel post: cancel the pending task of the  *)
(* message id, schedule a new delayed task, store the slot.                *)
(***************************************************************************)
CancelPendingEdit(pool, pe, message_id) ==
    IF message_id \in DOMAIN pe THEN CancelTask(pool, pe[message_id].task)
    ELSE pool

NewDelayTask(chat_id, message_id, text) ==
    [pc |-> "sleep", chat_id |-> chat_id, message_id |-> message_id,
     text |-> text, must_cancel |-> FALSE]

EditedChannelPost(chat_id, message_id, text) ==
    Deliver /\
    IF text = TxtEmpty
    THEN /\ step' = Silent("edited_channel_post", chat_id, "no_text")
         /\ UNCHANGED <<compteurs, processed_messages, processed_messages_json,
                        pending_edits, auto_report_settings, delay_tasks,
                        report_tasks>>
    ELSE LET cancelled == CancelPendingEdit(delay_tasks, pending_edits, message_id)
             pool == Sweep(cancelled, DelayHandles(DictDel(pending_edits, message_id)))
         IN  /\ FreeIds(pool) # {}
             /\ LET task == Min(FreeIds(pool))
                IN  /\ delay_tasks' = [pool EXCEPT ![task] =
                                          NewDelayTask(chat_id, message_id, text)]
                    /\ pending_edits' = DictPut(pending_edits, message_id,
                                            [chat_id |-> chat_id, task |-> task,
                                             text |-> text])
             /\ step' = Silent("edited_channel_post", chat_id, "scheduled")
             /\ UNCHANGED <<compteurs, processed_messages, processed_messages_json,
                            auto_report_settings, report_tasks>>

(***************************************************************************)
(* process_message_after_delay.                                            *)
(***************************************************************************)
RemovePendingEdit(pe, message_id) ==
    IF message_id \in DOMAIN pe THEN DictDel(pe, message_id) ELSE pe

FinishDelayTask(pool, id, pe) == Sweep([pool EXCEPT ![id] = DoneTask], DelayHandles(pe))

\* the sleep is over: process the text; if process_message_content replies
\* the task is suspended in reply_text, else it goes on to delete the slot
DelayWake(t) ==
    LET task == delay_tasks[t] IN
    /\ task.pc = "sleep"
    /\ MayResume(task)
    /\ LET r == process_message_content(task.chat_id, task.text,
                                        processed_messages, compteurs)
       IN  /\ compteurs' = r.compteurs
           /\ processed_messages' = r.processed_messages
           /\ IF r.replied
              THEN /\ delay_tasks' = [delay_tasks EXCEPT ![t].pc = "reply"]
                   /\ pending_edits' = pending_edits
                   /\ step' = Step("delay_wake", task.chat_id, r.gate,
                                   "counts", get_compteurs(r.compteurs, task.chat_id),
                                   "pending")
              ELSE /\ pending_edits' = RemovePendingEdit(pending_edits, task.message_id)
                   /\ delay_tasks' = FinishDelayTask(delay_tasks, t, pending_edits')
                   /\ step' = Silent("delay_wake", task.chat_id, r.gate)
    /\ UNCHANGED <<processed_messages_json, auto_report_settings, report_tasks,
                   updates>>

\* reply_text returned or raised an Exception (caught at line 209)
DelayReplyDone(t, ok) ==
    LET task == delay_tasks[t] IN
    /\ task.pc = "reply"
    /\ MayResume(task)
    /\ pending_edits' = RemovePendingEdit(pending_edits, task.message_id)
    /\ delay_tasks' = FinishDelayTask(delay_tasks, t, pending_edits')
    /\ step' = Step("delay_reply_done", task.chat_id, "counted",
                    "counts", NoBody, Delivery(ok))
    /\ UNCHANGED <<compteurs, processed_messages, processed_messages_json,
                   auto_report_settings, report_tasks, updates>>

\* CancelledError raised at the suspension point (line 137)
DelayCancelled(t) ==
    LET task == delay_tasks[t] IN
    /\ IsLive(task)
    /\ task.must_cancel
    /\ delay_tasks' = FinishDelayTask(delay_tasks, t, pending_edits)
    /\ step' = Silent("delay_cancelled", task.chat_id, task.pc)
    /\ UNCHANGED <<compteurs, processed_messages, processed_messages_json,
                   pending_edits, auto_report_settings, report_tasks, updates>>

(***************************************************************************)
(* reset_cmd: everything up to the reply is one run without suspension.    *)
(***************************************************************************)
CancelAll_none(pool, ids) == pool

CancelAll(pool, ids) ==
    [i \in DOMAIN pool |->
        IF i \in ids /\ IsLive(pool[i]) THEN [pool[i] EXCEPT !.must_cancel = TRUE]
        ELSE pool[i]]

HasReportTask(ars, chat_id) == chat_id \in DOMAIN ars

EditsToCancel_none(pe, chat_id) == {}

\* lines 227-231: the slots of the channel
EditsToCancel(pe, chat_id) == {m \in DOMAIN pe : pe[m].chat_id = chat_id}

DropEdits(pe, ids) == [m \in DOMAIN pe \ ids |-> pe[m]]

ResetCmd(chat_id) ==
    LET to_cancel == EditsToCancel(pending_edits, chat_id)
        tasks == {pending_edits[m].task : m \in to_cancel}
    IN  /\ Deliver
        /\ compteurs' = reset_compteurs_canal(compteurs, chat_id)
        /\ auto_report_settings' =
              IF HasReportTask(auto_report_settings, chat_id)
              THEN DictDel(auto_report_settings, chat_id)
              ELSE auto_report_settings
        /\ report_tasks' =
              IF HasReportTask(auto_report_settings, chat_id)
              THEN Sweep(CancelTask(report_tasks, auto_report_settings[chat_id].task),
                         ReportHandles(auto_report_settings'))
              ELSE report_tasks
        /\ pending_edits' = DropEdits(pending_edits, to_cancel)
        /\ delay_tasks' = Sweep(CancelAll(delay_tasks, tasks),
                                DelayHandles(pending_edits'))
        /\ processed_messages' = PurgeChannel(processed_messages, chat_id)
        /\ processed_messages_json' = processed_messages'
        /\ step' = Step("reset", chat_id, "reset", "reset_done", NoBody,
                        "handed")

(***************************************************************************)
(* time_cmd.                                                               *)
(***************************************************************************)
\* str.isdigit()
IsDigit(arg) ==
    /\ Len(arg) > 0
    /\ \A i \in DOMAIN arg : arg[i] \in DecimalDigits \cup {"sup2"}

\* int() raises ValueError on a digit that is not a decimal digit
IntRaises(arg) == \E i \in DOMAIN arg : arg[i] \notin DecimalDigits

IntervalOutOfRange_strict(interval) == interval <= 5 \/ interval >= 32

IntervalOutOfRange(interval) == interval < 5 \/ interval > 32

NewReportTask(chat_id, interval) ==
    [pc |-> "sleep", chat_id |-> chat_id, interval |-> interval,
     snapshot |-> ZeroCounts, must_cancel |-> FALSE]

CancelReportTask_forgotten(pool, ars, chat_id) == pool

CancelReportTask(pool, ars, chat_id) ==
    IF HasReportTask(ars, chat_id) THEN CancelTask(pool, ars[chat_id].task)
    ELSE pool

TimeCmd(chat_id, args) ==
    LET core == <<compteurs, processed_messages, processed_messages_json,
                  pending_edits, delay_tasks>>
    IN
    Deliver /\
    IF args = NoArgs \/ ~IsDigit(args)
    THEN /\ step' = Step("time", chat_id, "usage", "usage", NoBody, "handed")
         /\ UNCHANGED <<core, auto_report_settings, report_tasks>>
    ELSE IF IntRaises(args)
    THEN /\ step' = Silent("time", chat_id, "value_error")
         /\ UNCHANGED <<core, auto_report_settings, report_tasks>>
    ELSE IF IntervalOutOfRange(ParseInt(args))
    THEN /\ step' = Step("time", chat_id, "interval_error", "interval_error",
                         NoBody, "handed")
         /\ UNCHANGED <<core, auto_report_settings, report_tasks>>
    ELSE LET interval == ParseInt(args)
             cancelled == CancelReportTask(report_tasks, auto_report_settings, chat_id)
             pool == Sweep(cancelled,
                           ReportHandles(DictDel(auto_report_settings, chat_id)))
         IN  /\ FreeIds(pool) # {}
             /\ LET task == Min(FreeIds(pool))
                IN  /\ report_tasks' = [pool EXCEPT ![task] =
                                           NewReportTask(chat_id, interval)]
                    /\ auto_report_settings' =
                          DictPut(auto_report_settings, chat_id,
                                  [interval |-> interval, task |-> task])
             /\ step' = Step("time", chat_id, "configured", "configured",
                             NoBody, "handed")
             /\ UNCHANGED core

(***************************************************************************)
(* auto_report_cycle.                                                      *)
(***************************************************************************)
FinishReportTask(pool, id, ars) ==
    Sweep([pool EXCEPT ![id] = DoneTask], ReportHandles(ars))

\* the sleep is over: read the counters, format the report, call send_message
ReportTick(t) ==
    LET task == report_tasks[t] IN
    /\ task.pc = "sleep"
    /\ MayResume(task)
    /\ report_tasks' = [report_tasks EXCEPT
                           ![t].pc = "send",
                           ![t].snapshot = get_compteurs(compteurs, task.chat_id)]
    /\ step' = Step("report_tick", task.chat_id, "report", "report",
                    get_compteurs(compteurs, task.chat_id), "pending")
    /\ UNCHANGED <<compteurs, processed_messages, processed_messages_json,
                   pending_edits, auto_report_settings, delay_tasks, updates>>

\* send_message returned: reset, purge, save and sleep again (lines 352-358);
\* or it raised: the Exception leaves the loop (line 364)
ReportSendDone(t, ok) ==
    LET task == report_tasks[t] IN
    /\ task.pc = "send"
    /\ MayResume(task)
    /\ IF ok
       THEN /\ compteurs' = reset_compteurs_canal(compteurs, task.chat_id)
            /\ processed_messages' = PurgeChannel(processed_messages, task.chat_id)
            /\ processed_messages_json' = processed_messages'
            /\ report_tasks' = [report_tasks EXCEPT ![t].pc = "sleep",
                                                    ![t].snapshot = ZeroCounts]
       ELSE /\ report_tasks' = FinishReportTask(report_tasks, t, auto_report_settings)
            /\ UNCHANGED <<compteurs, processed_messages, processed_messages_json>>
    /\ step' = Step("report_send_done", task.chat_id, "report",
                    "report", task.snapshot, Delivery(ok))
    /\ UNCHANGED <<pending_edits, auto_report_settings, delay_tasks, updates>>

\* CancelledError raised at the suspension point (line 362)
ReportCancelled(t) ==
    LET task == report_tasks[t] IN
    /\ IsLive(task)
    /\ task.must_cancel
    /\ report_tasks' = FinishReportTask(report_tasks, t, auto_report_settings)
    /\ step' = Silent("report_cancelled", task.chat_id, task.pc)
    /\ UNCHANGED <<compteurs, processed_messages, processed_messages_json,
                   pending_edits, auto_report_settings, delay_tasks, updates>>

(***************************************************************************)
(* Specification.                                                          *)
(***************************************************************************)
\* a handler runs when the transport holds an update
CanHandle == updates < MaxUpdates

\* the handlers: one update is taken from the transport
Handle ==
    \/ \E c \in Channels, text \in Texts, ok \in BOOLEAN :
          CanHandle /\ ChannelPost(c, text, ok)
    \/ \E c \in Channels, m \in MsgIds, text \in Texts :
          CanHandle /\ EditedChannelPost(c, m, text)
    \/ \E c \in Channels : CanHandle /\ ResetCmd(c)
    \/ \E c \in Channels, args \in TimeArgs : CanHandle /\ TimeCmd(c, args)

\* a timer expires or the reply sink answers: a suspended task runs on
Resume ==
    \/ \E t \in DelayTaskIds : DelayWake(t)
    \/ \E t \in DelayTaskIds, ok \in BOOLEAN : DelayReplyDone(t, ok)
    \/ \E t \in ReportTaskIds : ReportTick(t)
    \/ \E t \in ReportTaskIds, ok \in BOOLEAN : ReportSendDone(t, ok)

\* a cancelled task is woken with the CancelledError
Cancelled ==
    \/ \E t \in DelayTaskIds : DelayCancelled(t)
    \/ \E t \in ReportTaskIds : ReportCancelled(t)

Next ==
    \/ Handle
    \/ Resume
    \/ Cancelled

Spec == Init /\ [][Next]_vars

(***************************************************************************)
(* Properties.                                                             *)
(***************************************************************************)
\* the step processes `text` for channel c, at once or after the delay
Processes(c, text) ==
    \/ /\ step'.op = "channel_post"
       /\ \E ok \in BOOLEAN : ChannelPost(c, text, ok)
    \/ /\ step'.op = "delay_wake"
       /\ \E t \in DelayTaskIds :
             /\ DelayWake(t)
             /\ delay_tasks[t].chat_id = c
             /\ delay_tasks[t].text = text

\* C1. Deduplication: while the key of (c, k) is in the ledger, an event on c
\* that carries #n<k>, immediate or debounced, changes no counter, leaves the
\* ledger as it is and hands nothing to the reply sink.
C1_Dedup ==
    [][\A c \in Channels, text \in Texts :
          ( /\ Extracted[text].has_numero
            /\ Keys[c][Extracted[text].numero] \in processed_messages
            /\ Processes(c, text) )
          => /\ compteurs' = compteurs
             /\ processed_messages' = processed_messages
             /\ step'.sent = "none"]_vars

\* a debounced edit was rejected as a duplicate of an event already counted
C1_Witness ==
    /\ step.op = "delay_wake"
    /\ step.gate = "duplicate"
    /\ \E s \in Symbols : compteurs[step.chat_id][s] > 0

\* What every step does to a burst of edits of one message: an edit cancels
\* the sleeping task of every earlier edit of the message and installs its own
\* text in the slot; the task that wakes and invokes the event processor is the
\* one the slot of its message holds, it was not cancelled, it processes the
\* text of the slot (the last edit) and it wakes once; a task cancelled in its
\* sleep stays as it is while other steps run, and its own step ends it without
\* changing counters, ledger or slots.
DebounceStep ==
    /\ \A c \in Channels, m \in MsgIds, text \in Texts \ {TxtEmpty} :
          (step'.op = "edited_channel_post" /\ EditedChannelPost(c, m, text))
          => /\ \A t \in DelayTaskIds :
                   (delay_tasks[t].pc = "sleep" /\ delay_tasks[t].message_id = m)
                   => delay_tasks'[t].must_cancel
             /\ pending_edits'[m].text = text
             /\ delay_tasks'[pending_edits'[m].task] =
                   NewDelayTask(c, m, text)
    /\ \A t \in DelayTaskIds :
          (step'.op = "delay_wake" /\ DelayWake(t))
          => /\ ~delay_tasks[t].must_cancel
             /\ delay_tasks[t].message_id \in DOMAIN pending_edits
             /\ pending_edits[delay_tasks[t].message_id].task = t
             /\ pending_edits[delay_tasks[t].message_id].text = delay_tasks[t].text
             /\ delay_tasks'[t].pc # "sleep"
    /\ \A t \in DelayTaskIds :
          (delay_tasks[t].pc = "sleep" /\ delay_tasks[t].must_cancel)
          => /\ delay_tasks'[t] \in {NoTask, delay_tasks[t]}
             /\ delay_tasks'[t] = NoTask
                   => /\ UNCHANGED <<compteurs, processed_messages, pending_edits>>
                      /\ step'.sent = "none"

\* task t is the sleeping task of the last edit so far of a message of channel c
LastEdit(t, c) ==
    /\ delay_tasks[t].pc = "sleep"
    /\ ~delay_tasks[t].must_cancel
    /\ delay_tasks[t].chat_id = c

\* task t has woken and invoked the event processor: it is suspended in
\* reply_text, or the step just run is its wake on channel c and it has ended
Invoked(t, c) ==
    \/ /\ delay_tasks[t].pc = "reply"
       /\ delay_tasks[t].chat_id = c
    \/ /\ step.op = "delay_wake"
       /\ step.chat_id = c
       /\ step.sent = "none"
       /\ ~IsLive(delay_tasks[t])

\* the burst goes on or is called off: the handler just run is a later edit
\* on channel c or a reset of channel c, and it has cancelled task t
BurstGoesOn(t, c) ==
    /\ IsLive(delay_tasks[t])
    /\ delay_tasks[t].must_cancel
    /\ step.chat_id = c
    /\ step.op \in {"edited_channel_post", "reset"}

\* C2. Debounce: for a burst of edits of one message exactly one invocation of
\* the event processor occurs, with the text of the last edit.  At most one:
\* every step is a DebounceStep, so a superseded edit is never processed and
\* the task that wakes holds the last text.  At least one: the task of an edit
\* that no later edit of its channel supersedes and no reset of its channel
\* calls off does wake and invoke the processor.
C2_Debounce ==
    /\ [][DebounceStep]_vars
    /\ \A t \in DelayTaskIds, c \in Channels :
          LastEdit(t, c) ~> (Invoked(t, c) \/ BurstGoesOn(t, c))

\* C3. Reset against a debounce in flight: reset(c) cancels every live delayed
\* task of channel c; a cancelled task never invokes the event processor: its
\* only step ends it and changes no counter, no ledger and no slot.
C3_ResetCancelsEdits ==
    [][/\ \A c \in Channels :
             (step'.op = "reset" /\ ResetCmd(c))
             => \A t \in DelayTaskIds :
                   (IsLive(delay_tasks[t]) /\ delay_tasks[t].chat_id = c)
                   => /\ IsLive(delay_tasks'[t])
                      /\ delay_tasks'[t].must_cancel
       /\ \A t \in DelayTaskIds :
             (IsLive(delay_tasks[t]) /\ delay_tasks[t].must_cancel)
             => /\ ~IsLive(delay_tasks'[t]) \/ delay_tasks'[t] = delay_tasks[t]
                /\ ~IsLive(delay_tasks'[t])
                      => /\ step'.op = "delay_cancelled"
                         /\ step'.sent = "none"
                         /\ UNCHANGED <<compteurs, processed_messages,
                                        pending_edits>>]_vars

\* reset(c) has just cancelled a delayed task of c that was still asleep
C3_Witness ==
    /\ step.op = "reset"
    /\ \E t \in DelayTaskIds :
          /\ delay_tasks[t].pc = "sleep"
          /\ delay_tasks[t].must_cancel
          /\ delay_tasks[t].chat_id = step.chat_id
          /\ Extracted[delay_tasks[t].text].has_numero

\* C4. Snapshot and reset of a report cycle are atomic: the counts shown in
\* the report a cycle has sent are the counts its reset removes.
C4_ReportCountsAreResetCounts ==
    [][\A t \in ReportTaskIds :
          (step'.op = "report_send_done" /\ ReportSendDone(t, TRUE))
          => report_tasks[t].snapshot = get_compteurs(compteurs, report_tasks[t].chat_id)]_vars

\* C5. A failed delivery of a report does not end the recurring task: the task
\* is still live after the step in which send_message raised.
C5_FailedSendKeepsTask ==
    [][\A t \in ReportTaskIds :
          (step'.op = "report_send_done" /\ ReportSendDone(t, FALSE))
          => IsLive(report_tasks'[t])]_vars

\* C6. The delivery outcome does not change the core state: after a failed
\* delivery the counters and the ledger are what a successful delivery leaves
\* (the increments of an event applied, the reset and purge of a report cycle
\* applied).
C6_DeliveryOutcomeIrrelevant ==
    [][/\ \A c \in Channels, text \in Texts :
             (step'.op = "channel_post" /\ ChannelPost(c, text, FALSE))
             => /\ compteurs' =
                      process_message_content(c, text, processed_messages,
                                              compteurs).compteurs
                /\ processed_messages' =
                      process_message_content(c, text, processed_messages,
                                              compteurs).processed_messages
       /\ \A t \in DelayTaskIds :
             (step'.op = "delay_reply_done" /\ DelayReplyDone(t, FALSE))
             => UNCHANGED <<compteurs, processed_messages>>
       /\ \A t \in ReportTaskIds :
             (step'.op = "report_send_done" /\ ReportSendDone(t, FALSE))
             => /\ compteurs' =
                      reset_compteurs_canal(compteurs, report_tasks[t].chat_id)
                /\ processed_messages' =
                      PurgeChannel(processed_messages, report_tasks[t].chat_id)]_vars

\* the arguments of /time that are decimal numerals of an interval in 5..32
IsDecimal(args) ==
    /\ args # NoArgs
    /\ \A i \in DOMAIN args : args[i] \in DecimalDigits

ValidIntervalArgs == {args \in TimeArgs : IsDecimal(args) /\ ParseInt(args) \in 5..32}

\* C7. Interval validation: /time accepts exactly the intervals 5..32: it then
\* records the interval with a new sleeping task for the channel; on any other
\* argument nothing of the state changes: the settings, the tasks (none
\* cancelled, none replaced), counters, ledger and slots are as before.
C7_IntervalValidation ==
    [][\A c \in Channels, args \in TimeArgs :
          (step'.op = "time" /\ TimeCmd(c, args))
          => IF args \in ValidIntervalArgs
             THEN /\ step'.gate = "configured"
                  /\ c \in DOMAIN auto_report_settings'
                  /\ auto_report_settings'[c].interval = ParseInt(args)
                  /\ report_tasks'[auto_report_settings'[c].task] =
                        NewReportTask(c, ParseInt(args))
             ELSE /\ step'.gate # "configured"
                  /\ UNCHANGED <<auto_report_settings, report_tasks, compteurs,
                                 processed_messages, processed_messages_json,
                                 pending_edits, delay_tasks>>]_vars

\* /time was rejected for a channel whose auto-report task is live, and the
\* task and its interval are still there
C7_Witness ==
    /\ step.op = "time"
    /\ step.gate \in {"interval_error", "usage", "value_error"}
    /\ step.chat_id \in DOMAIN auto_report_settings
    /\ LET task == report_tasks[auto_report_settings[step.chat_id].task]
       IN  /\ IsLive(task)
           /\ ~task.must_cancel
           /\ task.interval = auto_report_settings[step.chat_id].interval

\* the keys of a channel in the ledger: the keys "<chat_id>_<digits>"
IsKeyOf(key, chat_id) ==
    /\ StartsWith(key, IntToStr(chat_id) \o <<"_">>)
    /\ Len(key) > Len(IntToStr(chat_id)) + 1
    /\ \A i \in (Len(IntToStr(chat_id)) + 2)..Len(key) : key[i] \in DecimalDigits

\* C8. Postcondition of reset: right after reset(c), channel c has all
\* counters zero, no auto-report entry and no auto-report task that is not
\* cancelled, no pending edit slot and no delayed task that is not cancelled,
\* and no key in the ledger.
C8_ResetPostcondition ==
    step.op = "reset" =>
        LET c == step.chat_id IN
        /\ \A s \in Symbols : compteurs[c][s] = 0
        /\ c \notin DOMAIN auto_report_settings
        /\ \A t \in ReportTaskIds :
              (IsLive(report_tasks[t]) /\ report_tasks[t].chat_id = c)
              => report_tasks[t].must_cancel
        /\ \A m \in DOMAIN pending_edits : pending_edits[m].chat_id # c
        /\ \A t \in DelayTaskIds :
              (IsLive(delay_tasks[t]) /\ delay_tasks[t].chat_id = c)
              => delay_tasks[t].must_cancel
        /\ \A key \in processed_messages : ~IsKeyOf(key, c)

\* reset(c) has just cancelled the auto-report task and a delayed task of c,
\* while the other channel keeps its key
C8_Witness ==
    /\ step.op = "reset"
    /\ \E t \in ReportTaskIds :
          /\ IsLive(report_tasks[t])
          /\ report_tasks[t].must_cancel
          /\ report_tasks[t].chat_id = step.chat_id
    /\ \E t \in DelayTaskIds :
          /\ IsLive(delay_tasks[t])
          /\ delay_tasks[t].must_cancel
          /\ delay_tasks[t].chat_id = step.chat_id

\* C9 as claimed: a key leaves the ledger only in a step of reset.
C9_OnlyResetRemovesKeys ==
    [][\A key \in processed_messages :
          key \notin processed_messages' => step'.op = "reset"]_vars

\* C9. A key of channel c stays in the ledger through every step except
\* reset(c) and the end of an auto-report cycle of c whose report was
\* delivered: events, edits, /time, delayed tasks, report ticks, failed
\* deliveries and the resets and cycles of other channels keep it.
C9_KeysRemovedByResetOrReport ==
    [][\A key \in processed_messages :
          key \notin processed_messages'
          => /\ step'.op \in {"reset", "report_send_done"}
             /\ step'.op = "report_send_done" => step'.status = "ok"
             /\ IsKeyOf(key, step'.chat_id)]_vars

\* an auto-report cycle has ended with its report delivered; the report shows
\* a diamond, which only a numbered event of the model counts, and the key of
\* that event is gone from the ledger while the other channel keeps its key
C9_Witness ==
    /\ step.op = "report_send_done"
    /\ step.status = "ok"
    /\ step.body["diamond"] > 0
    /\ \A key \in processed_messages : ~IsKeyOf(key, step.chat_id)
    /\ processed_messages # {}

\* C10. An event rejected because its text has no parentheses or no card in
\* the first parentheses is a no-op: no reply, counters and ledger unchanged.
C10_NoCardsIsNoOp ==
    [][step'.gate \in {"no_parentheses", "no_cards"}
          => /\ step'.sent = "none"
             /\ compteurs' = compteurs
             /\ processed_messages' = processed_messages]_vars

\* the text holds neither of the two confirmation symbols
LacksMarker(text) ==
    /\ text # TxtEmpty
    /\ \A i \in DOMAIN text : text[i] \notin {"check", "beginner"}

\* C11. First gate: an event whose text has no confirmation marker, even with
\* a sequence number and cards in parentheses, hands nothing to the reply sink
\* and changes no counter, no key of the ledger, no saved ledger and no
\* auto-report entry or task.  Delivered as a channel post it leaves the slots
\* and the delayed tasks as they are; delivered by a delayed task, the only
\* change is the end of that task, which removes its slot after the processor
\* has returned.
C11_NoMarkerIsNoOp ==
    [][\A c \in Channels, text \in Texts :
          (LacksMarker(text) /\ Processes(c, text))
          => /\ step'.sent = "none"
             /\ step'.gate = "no_confirmation"
             /\ UNCHANGED <<compteurs, processed_messages, processed_messages_json,
                            auto_report_settings, report_tasks>>
             /\ step'.op = "channel_post" => UNCHANGED <<pending_edits, delay_tasks>>
             /\ step'.op = "delay_wake" =>
                   \A t \in DelayTaskIds :
                      DelayWake(t)
                      => /\ \A t2 \in DelayTaskIds \ {t} :
                               delay_tasks'[t2] = delay_tasks[t2]
                         /\ \A m \in DOMAIN pending_edits :
                               pending_edits[m].task # t
                               => /\ m \in DOMAIN pending_edits'
                                  /\ pending_edits'[m] = pending_edits[m]]_vars

\* a post without marker, with #n42 and a spade in parentheses, was rejected
\* on a channel that has counts, a key in the ledger and an auto-report task
C11_Witness ==
    /\ step.op = "channel_post"
    /\ step.gate = "no_confirmation"
    /\ \E s \in Symbols : compteurs[step.chat_id][s] > 0
    /\ Keys[step.chat_id][42] \in processed_messages
    /\ step.chat_id \in DOMAIN auto_report_settings

KeysOf(pm, chat_id) == {key \in pm : IsKeyOf(key, chat_id)}

\* what a step leaves of channel b: its counters, its keys, its slots with
\* their delayed tasks, its auto-report entry and task
LeavesChannel(b) ==
    /\ compteurs'[b] = compteurs[b]
    /\ KeysOf(processed_messages', b) = KeysOf(processed_messages, b)
    /\ \A m \in DOMAIN pending_edits :
          pending_edits[m].chat_id = b
          => /\ m \in DOMAIN pending_edits'
             /\ pending_edits'[m] = pending_edits[m]
    /\ \A t \in DelayTaskIds :
          (IsLive(delay_tasks[t]) /\ delay_tasks[t].chat_id = b)
          => delay_tasks'[t] = delay_tasks[t]
    /\ (b \in DOMAIN auto_report_settings') = (b \in DOMAIN auto_report_settings)
    /\ b \in DOMAIN auto_report_settings
          => auto_report_settings'[b] = auto_report_settings[b]
    /\ \A t \in ReportTaskIds :
          (IsLive(report_tasks[t]) /\ report_tasks[t].chat_id = b)
          => report_tasks'[t] = report_tasks[t]

\* C12. Channel independence: a step of a handler or of a task of channel A
\* leaves the counters, the keys, the slots with their delayed tasks and the
\* auto-report entry and task of every other channel B as they are.
C12_ChannelsIndependent ==
    [][\A b \in Channels : b # step'.chat_id => LeavesChannel(b)]_vars

\* C13. Cancellation is final.  A handler that takes the handle of a live task
\* out of pending_edits or auto_report_settings (a replacing edit, a
\* reconfigure, a reset) has cancelled that task; and a cancelled task,
\* whether it was suspended in its sleep, in reply_text or in send_message,
\* does nothing more: it stays suspended while handlers and other tasks run,
\* and the one step it takes ends it, changes no counter, no key, no saved
\* ledger, no slot and no auto-report entry and hands nothing to the reply
\* sink.
C13_CancellationIsFinal ==
    [][/\ \A m \in DOMAIN pending_edits :
             LET t == pending_edits[m].task IN
             ( /\ step'.op \in {"edited_channel_post", "reset"}
               /\ IsLive(delay_tasks[t])
               /\ (m \notin DOMAIN pending_edits' \/ pending_edits'[m].task # t) )
             => /\ IsLive(delay_tasks'[t])
                /\ delay_tasks'[t].must_cancel
       /\ \A c \in DOMAIN auto_report_settings :
             LET t == auto_report_settings[c].task IN
             ( /\ step'.op \in {"time", "reset"}
               /\ IsLive(report_tasks[t])
               /\ (c \notin DOMAIN auto_report_settings'
                      \/ auto_report_settings'[c].task # t) )
             => /\ IsLive(report_tasks'[t])
                /\ report_tasks'[t].must_cancel
       /\ \A t \in DelayTaskIds :
             (IsLive(delay_tasks[t]) /\ delay_tasks[t].must_cancel)
             => /\ delay_tasks'[t] = delay_tasks[t] \/ ~IsLive(delay_tasks'[t])
                /\ ~IsLive(delay_tasks'[t])
                      => /\ step' = Silent("delay_cancelled", delay_tasks[t].chat_id,
                                           delay_tasks[t].pc)
                         /\ UNCHANGED <<compteurs, processed_messages,
                                        processed_messages_json, pending_edits,
                                        auto_report_settings, report_tasks>>
       /\ \A t \in ReportTaskIds :
             (IsLive(report_tasks[t]) /\ report_tasks[t].must_cancel)
             => /\ report_tasks'[t] = report_tasks[t] \/ ~IsLive(report_tasks'[t])
                /\ ~IsLive(report_tasks'[t])
                      => /\ step' = Silent("report_cancelled", report_tasks[t].chat_id,
                                           report_tasks[t].pc)
                         /\ UNCHANGED <<compteurs, processed_messages,
                                        processed_messages_json, pending_edits,
                                        auto_report_settings, delay_tasks>>]_vars

\* a delayed task that had counted its event and was suspended in reply_text
\* was cancelled by a later edit and has ended; the slot of the later edit is
\* still there
C13_Witness ==
    /\ step.op = "delay_cancelled"
    /\ step.gate = "reply"
    /\ \E m \in DOMAIN pending_edits :
          /\ delay_tasks[pending_edits[m].task].pc = "sleep"
          /\ ~delay_tasks[pending_edits[m].task].must_cancel

\* the auto-report tasks of a channel that are neither cancelled nor finished
LiveReportTasks(chat_id) ==
    {t \in ReportTaskIds :
        /\ IsLive(report_tasks[t])
        /\ ~report_tasks[t].must_cancel
        /\ report_tasks[t].chat_id = chat_id}

\* C14. At most one live auto-report task per channel: in every state a
\* channel has at most one auto-report task that is neither cancelled nor
\* finished, and auto_report_settings holds an entry for the channel whose
\* task is that one, with the interval the task sleeps.
C14_OneReportTaskPerChannel ==
    \A c \in Channels :
        /\ Cardinality(LiveReportTasks(c)) <= 1
        /\ \A t \in LiveReportTasks(c) :
              /\ c \in DOMAIN auto_report_settings
              /\ auto_report_settings[c].task = t
              /\ auto_report_settings[c].interval = report_tasks[t].interval

\* /time has just replaced the auto-report task of a channel: the old task is
\* cancelled and not yet ended, the new one is live and recorded
C14_Witness ==
    /\ step.op = "time"
    /\ step.gate = "configured"
    /\ LiveReportTasks(step.chat_id) # {}
    /\ \E t \in ReportTaskIds :
          /\ IsLive(report_tasks[t])
          /\ report_tasks[t].must_cancel
          /\ report_tasks[t].chat_id = step.chat_id
          /\ report_tasks[t].interval # auto_report_settings[step.chat_id].interval

\* the delayed tasks of a message id that are neither cancelled nor finished
LiveDelayTasks(message_id) ==
    {t \in DelayTaskIds :
        /\ IsLive(delay_tasks[t])
        /\ ~delay_tasks[t].must_cancel
        /\ delay_tasks[t].message_id = message_id}

\* C15. At most one live pending edit per message id: in every state there is
\* at most one delayed task of a message id that is neither cancelled nor
\* finished, and it is the task the slot of that id holds, with the text of the
\* slot; delayed tasks never stack.
C15_OnePendingEditPerId ==
    \A m \in MsgIds :
        /\ Cardinality(LiveDelayTasks(m)) <= 1
        /\ \A t \in LiveDelayTasks(m) :
              /\ m \in DOMAIN pending_edits
              /\ pending_edits[m].task = t
              /\ pending_edits[m].text = delay_tasks[t].text

\* an edit has arrived for a message whose previous edit had fired and was
\* suspended in reply_text: that task is cancelled, the new one is the only
\* live task of the message
C15_Witness ==
    /\ step.op = "edited_channel_post"
    /\ step.gate = "scheduled"
    /\ \E m \in DOMAIN pending_edits :
          /\ LiveDelayTasks(m) = {pending_edits[m].task}
          /\ \E t \in DelayTaskIds :
                /\ delay_tasks[t].pc = "reply"
                /\ delay_tasks[t].must_cancel
                /\ delay_tasks[t].message_id = m

(***************************************************************************)
(* Fairness: timers expire and the reply sink answers, so a suspended task *)
(* that can run on does run on; a cancelled task is woken by the loop.     *)
(***************************************************************************)
DelayTaskRuns(t) ==
    DelayWake(t) \/ \E ok \in BOOLEAN : DelayReplyDone(t, ok)

ReportTaskRuns(t) ==
    ReportTick(t) \/ \E ok \in BOOLEAN : ReportSendDone(t, ok)

Fairness ==
    /\ WF_vars(Cancelled)
    /\ \A t \in DelayTaskIds : WF_vars(DelayTaskRuns(t))
    /\ \A t \in ReportTaskIds : WF_vars(ReportTaskRuns(t))

LiveSpec == Spec /\ Fairness

\* the delayed task t of an edit on channel c sleeps and is not cancelled
Scheduled(t, c) ==
    /\ delay_tasks[t].pc = "sleep"
    /\ ~delay_tasks[t].must_cancel
    /\ delay_tasks[t].chat_id = c

\* task t has invoked the event processor and its slot is deleted: the step
\* just run is the end of a delayed task of channel c after the processor
\* returned, t is finished and no slot holds t
Fired(t, c) ==
    /\ step.chat_id = c
    /\ step.op \in {"delay_wake", "delay_reply_done"}
    /\ ~IsLive(delay_tasks[t])
    /\ \A m \in DOMAIN pending_edits : pending_edits[m].task # t

\* task t has been cancelled by a later edit of its message on channel c or by
\* a reset of channel c
Superseded(t, c) ==
    /\ IsLive(delay_tasks[t])
    /\ delay_tasks[t].must_cancel
    /\ step.chat_id = c
    /\ step.op \in {"edited_channel_post", "reset"}

\* C16. Debounce liveness: an edit of a message on channel c that is followed
\* neither by a later edit of that message on c nor by a reset of c is
\* eventually processed: its delayed task invokes the event processor and the
\* slot is deleted.
C16_EditEventuallyFires ==
    \A t \in DelayTaskIds, c \in Channels :
        Scheduled(t, c) ~> (Fired(t, c) \/ Superseded(t, c))

(***************************************************************************)
(* Process restart.  The process ends with its tasks and its globals; the  *)
(* file processed_messages.json stays.  main() then calls                  *)
(* load_processed_messages before the handlers are registered.             *)
(***************************************************************************)
\* lines 58-65: the ledger is the content of the file (the empty set when the
\* file is missing or unreadable; the model's file starts empty)
load_processed_messages(file) == file

Restart ==
    /\ processed_messages' = load_processed_messages(processed_messages_json)
    /\ compteurs' = [c \in Channels |-> ZeroCounts]
    /\ pending_edits' = << >>
    /\ auto_report_settings' = << >>
    /\ delay_tasks' = [i \in DelayTaskIds |-> NoTask]
    /\ report_tasks' = [i \in ReportTaskIds |-> NoTask]
    /\ step' = Silent("restart", 0, "none")
    /\ UNCHANGED <<processed_messages_json, updates>>

NextRestart ==
    \/ Next
    \/ Restart

RestartSpec == Init /\ [][NextRestart]_vars

\* C17. Restart empties the core: right after a restart the dedup ledger is
\* empty, whatever keys were held or saved before.
C17_RestartEmptiesLedger ==
    step.op = "restart" => processed_messages = {}

\* the counts of every symbol in the first parentheses of a text
WholeEvent(text) ==
    [s \in Symbols |->
        IF s = "heart"
        THEN CountOf(ParenContent(text), "heart")
                + CountOf(ParenContent(text), "heart_suit")
        ELSE CountOf(ParenContent(text), s)]

\* C18. Event application is atomic: a step that changes the counters of a
\* channel either adds the counts of all the symbols of one event of that
\* channel, or is a reset or the end of a report cycle of that channel and
\* leaves them all at zero.  So between two steps, where auto-report cycles,
\* resets and other events read the counters, no event is partly applied.
C18_EventAppliedWhole ==
    [][\A c \in Channels :
          compteurs'[c] # compteurs[c]
          => /\ step'.chat_id = c
             /\ \/ /\ step'.op \in {"reset", "report_send_done"}
                   /\ compteurs'[c] = ZeroCounts
                \/ /\ step'.op \in {"channel_post", "delay_wake"}
                   /\ \E text \in Texts :
                         /\ Extracted[text].has_paren
                         /\ Processes(c, text)
                         /\ \A s \in Symbols :
                               compteurs'[c][s] = compteurs[c][s] + WholeEvent(text)[s]]_vars

\* an auto-report cycle has read the counters after an event with a heart and
\* a diamond was counted: its report shows both
C18_Witness ==
    /\ step.op = "report_tick"
    /\ step.body["heart"] = 1
    /\ step.body["diamond"] = 1
    /\ compteurs[step.chat_id] = step.body

\* delayed task t ends in this step after the event processor has returned
Fires(t) ==
    \/ /\ step'.op = "delay_wake"
       /\ DelayWake(t)
       /\ ~IsLive(delay_tasks'[t])
    \/ /\ step'.op = "delay_reply_done"
       /\ \E ok \in BOOLEAN : DelayReplyDone(t, ok)

\* C19. A firing delayed task deletes only its own slot: when a delayed task
\* removes pending_edits[message_id] after processing, that slot holds this
\* task, with its channel and its text; every slot that holds another task
\* stays.
C19_FiringTaskDeletesOwnSlot ==
    [][\A t \in DelayTaskIds :
          Fires(t)
          => /\ \A m \in DOMAIN pending_edits \ DOMAIN pending_edits' :
                   /\ m = delay_tasks[t].message_id
                   /\ pending_edits[m] = [chat_id |-> delay_tasks[t].chat_id,
                                          task |-> t,
                                          text |-> delay_tasks[t].text]
             /\ \A m \in DOMAIN pending_edits :
                   pending_edits[m].task # t
                   => /\ m \in DOMAIN pending_edits'
                      /\ pending_edits'[m] = pending_edits[m]]_vars

\* a delayed task has fired, counted its event on top of an earlier event of
\* the channel, got its reply delivered and removed its slot: no slot is left
C19_Witness ==
    /\ step.op = "delay_reply_done"
    /\ step.status = "ok"
    /\ updates = 2
    /\ pending_edits = << >>
    /\ compteurs[step.chat_id]["heart"] = 2

====
